---- MODULE Spec2Model ----
(***************************************************************************)
(* Model of backend/app/services/prediction.py (PredictionService).        *)
(*                                                                         *)
(* Every real-valued quantity is held as a fixed-point integer with two    *)
(* decimals (hundredths): ph 6.5 is 650, temperature 25 is 2500,           *)
(* confidence 0.85 is 85, ammonia 0.05 is 5, a score of 10.0 is 1000.      *)
(* A product of two such values is in ten-thousandths.                     *)
(*                                                                         *)
(* A Python dict is a function whose DOMAIN is the set of its keys.        *)
(* A Python list is a sequence.  None is the string "None" where the       *)
(* other values are strings, and NoScore where they are numbers: a        *)
(* water_quality_score is Score(v) or NoScore in the results of both tiers. *)
(***************************************************************************)
EXTENDS Integers, Sequences, FiniteSets, TLC

VARIABLES water_quality_model, request, response

vars == <<water_quality_model, request, response>>

None == "None"

\* an Optional[float]: None, or a float
NoScore == [present |-> FALSE, value |-> 0]
Score(v) == [present |-> TRUE, value |-> v]

----------------------------------------------------------------------------
(* The species catalog *)

\* the iteration order of the species_info dict
SpeciesOrder ==
    <<"Tilapia", "Catfish", "Carp", "Salmon", "Trout", "Shrimp", "Goldfish">>

fish_species_info ==
    [ Tilapia  |-> [name |-> "Tilapia",
                    ideal_ph_range |-> <<650, 800>>,
                    ideal_temperature_range |-> <<2500, 3000>>,
                    ideal_turbidity_range |-> <<3000, 8000>>],
      Catfish  |-> [name |-> "Catfish",
                    ideal_ph_range |-> <<600, 800>>,
                    ideal_temperature_range |-> <<2400, 2800>>,
                    ideal_turbidity_range |-> <<2000, 6000>>],
      Carp     |-> [name |-> "Carp",
                    ideal_ph_range |-> <<650, 900>>,
                    ideal_temperature_range |-> <<2000, 2800>>,
                    ideal_turbidity_range |-> <<3000, 7000>>],
      Salmon   |-> [name |-> "Salmon",
                    ideal_ph_range |-> <<650, 800>>,
                    ideal_temperature_range |-> <<1000, 1600>>,
                    ideal_turbidity_range |-> <<500, 2000>>],
      Trout    |-> [name |-> "Trout",
                    ideal_ph_range |-> <<650, 800>>,
                    ideal_temperature_range |-> <<1200, 1800>>,
                    ideal_turbidity_range |-> <<500, 2500>>],
      Shrimp   |-> [name |-> "Shrimp",
                    ideal_ph_range |-> <<700, 850>>,
                    ideal_temperature_range |-> <<2600, 3200>>,
                    ideal_turbidity_range |-> <<3000, 6000>>],
      Goldfish |-> [name |-> "Goldfish",
                    ideal_ph_range |-> <<600, 800>>,
                    ideal_temperature_range |-> <<2000, 2500>>,
                    ideal_turbidity_range |-> <<2000, 5000>>] ]

\* FishSpeciesInfo(name=species): an entry with the name only
FishSpeciesInfo(species) ==
    [name |-> species,
     ideal_ph_range |-> <<>>,
     ideal_temperature_range |-> <<>>,
     ideal_turbidity_range |-> <<>>]

\* self.fish_species_info.get(species, FishSpeciesInfo(name=species))
SpeciesInfoOf(species) ==
    IF species \in DOMAIN fish_species_info
    THEN fish_species_info[species]
    ELSE FishSpeciesInfo(species)

\* [f(x) for x in xs]
RECURSIVE ResolveSpecies(_)
ResolveSpecies(names) ==
    IF names = <<>> THEN <<>>
    ELSE <<SpeciesInfoOf(Head(names))>> \o ResolveSpecies(Tail(names))

----------------------------------------------------------------------------
(* Dict helpers *)

\* data.get(key, default)
GetOr(data, key, default) ==
    IF key \in DOMAIN data THEN data[key] ELSE default

\* "v = data.get(key); if v:" -- the key is there and its value is not 0
Truthy(data, key) ==
    key \in DOMAIN data /\ data[key] # 0

\* "some_range or default": an empty (or missing) range gives the default
RangeOr(range, default) ==
    IF range = <<>> THEN default ELSE range

----------------------------------------------------------------------------
(* predict_basic *)

\* the outcome of a species model's predict(input_data): it raises, or it
\* returns {'predicted_species': ..., 'confidence': ...}
Raises ==
    [called |-> TRUE, raises |-> TRUE, predicted_species |-> None,
     confidence |-> 0]
Returns(species, confidence) ==
    [called |-> TRUE, raises |-> FALSE, predicted_species |-> species,
     confidence |-> confidence]

\* the four conditions of the if/elif chain of the rule-based fallback
TilapiaRule(ph, temperature, turbidity) ==
    /\ 650 <= ph /\ ph <= 750
    /\ 2500 <= temperature /\ temperature <= 3000
    /\ 3000 <= turbidity /\ turbidity <= 6000

CatfishRule(ph, temperature, turbidity) ==
    /\ 600 <= ph /\ ph <= 700
    /\ 2400 <= temperature /\ temperature <= 2800
    /\ 2000 <= turbidity /\ turbidity <= 5000

CarpRule(ph, temperature, turbidity) ==
    /\ 650 <= ph /\ ph <= 800
    /\ 2000 <= temperature /\ temperature <= 2600
    /\ 3000 <= turbidity /\ turbidity <= 7000

TroutRuleWide(ph, temperature, turbidity) ==
    /\ 650 <= ph /\ ph <= 800
    /\ 1000 <= temperature /\ temperature <= 2800
    /\ 500 <= turbidity /\ turbidity <= 2500

TroutRule(ph, temperature, turbidity) ==
    /\ 650 <= ph /\ ph <= 800
    /\ 1000 <= temperature /\ temperature <= 1800
    /\ 500 <= turbidity /\ turbidity <= 2500

\* the except-branch of predict_basic, with the catfish rule tried first
RuleFallbackCatfishFirst(ph, temperature, turbidity) ==
    IF CatfishRule(ph, temperature, turbidity)
    THEN [predicted_species |-> "Catfish", confidence |-> 80]
    ELSE IF TilapiaRule(ph, temperature, turbidity)
    THEN [predicted_species |-> "Tilapia", confidence |-> 85]
    ELSE IF CarpRule(ph, temperature, turbidity)
    THEN [predicted_species |-> "Carp", confidence |-> 75]
    ELSE IF TroutRule(ph, temperature, turbidity)
    THEN [predicted_species |-> "Trout", confidence |-> 90]
    ELSE [predicted_species |-> "Tilapia", confidence |-> 70]

\* the except-branch of predict_basic: defaults, then the if/elif chain
RuleFallback(ph, temperature, turbidity) ==
    IF TilapiaRule(ph, temperature, turbidity)
    THEN [predicted_species |-> "Tilapia", confidence |-> 85]
    ELSE IF CatfishRule(ph, temperature, turbidity)
    THEN [predicted_species |-> "Catfish", confidence |-> 80]
    ELSE IF CarpRule(ph, temperature, turbidity)
    THEN [predicted_species |-> "Carp", confidence |-> 75]
    ELSE IF TroutRule(ph, temperature, turbidity)
    THEN [predicted_species |-> "Trout", confidence |-> 90]
    ELSE [predicted_species |-> "Tilapia", confidence |-> 70]

\* the three awards of the simplified score, before normalisation
BasicScorePoints(data) ==
    (IF 650 <= data.ph /\ data.ph <= 850 THEN 3
     ELSE IF 600 <= data.ph /\ data.ph <= 900 THEN 2
     ELSE 1)
    +
    (IF 2200 <= data.temperature /\ data.temperature <= 3000 THEN 3
     ELSE IF 1800 <= data.temperature /\ data.temperature <= 3200 THEN 2
     ELSE 1)
    +
    (IF 3000 <= data.turbidity /\ data.turbidity <= 8000 THEN 3
     ELSE IF 2000 <= data.turbidity /\ data.turbidity <= 10000 THEN 2
     ELSE 1)

\* the score left as the sum of the awards on a 0-10 reading (no division by 9)
BasicWaterQualityScoreUnnormalised(data) ==
    BasicScorePoints(data) * 1000

\* the temperature award taken from the bands of the weighted score
BasicWaterQualityScoreOtherBands(data) ==
    ( ( (IF 650 <= data.ph /\ data.ph <= 850 THEN 3
         ELSE IF 600 <= data.ph /\ data.ph <= 900 THEN 2
         ELSE 1)
      + (IF 2000 <= data.temperature /\ data.temperature <= 3000 THEN 3
         ELSE IF 1500 <= data.temperature /\ data.temperature <= 3500 THEN 2
         ELSE 1)
      + (IF 3000 <= data.turbidity /\ data.turbidity <= 8000 THEN 3
         ELSE IF 2000 <= data.turbidity /\ data.turbidity <= 10000 THEN 2
         ELSE 1) ) * 1000 ) \div 9

\* water_quality_score = (water_quality_score / 9) * 10, in hundredths
BasicWaterQualityScore(data) ==
    (BasicScorePoints(data) * 1000) \div 9

\* one entry of the analysis dict
Analysis(value, status, recommendation) ==
    [value |-> value, status |-> status, recommendation |-> recommendation]

\* the ph entry with the recommendation also given on the band's edges
AnalyzePhEdgeAdvice(ph) ==
    Analysis(ph,
             IF 650 <= ph /\ ph <= 850 THEN "optimal" ELSE "suboptimal",
             IF ph <= 650
             THEN "Consider adding limestone or calcium carbonate to increase pH"
             ELSE IF ph >= 850
             THEN "Consider adding natural acids like peat or driftwood to decrease pH"
             ELSE None)

\* the ph entry of _analyze_parameters_basic
AnalyzePh(ph) ==
    Analysis(ph,
             IF 650 <= ph /\ ph <= 850 THEN "optimal" ELSE "suboptimal",
             IF ph < 650
             THEN "Consider adding limestone or calcium carbonate to increase pH"
             ELSE IF ph > 850
             THEN "Consider adding natural acids like peat or driftwood to decrease pH"
             ELSE None)

\* the temperature entry of _analyze_parameters_basic
AnalyzeTemperature(temp) ==
    Analysis(temp,
             IF 2000 <= temp /\ temp <= 3000 THEN "optimal" ELSE "suboptimal",
             IF temp < 2000
             THEN "Consider using heaters to increase water temperature"
             ELSE IF temp > 3000
             THEN "Consider cooling methods like shade or water exchange"
             ELSE None)

\* the turbidity entry of _analyze_parameters_basic
AnalyzeTurbidity(turbidity) ==
    Analysis(turbidity,
             IF 3000 <= turbidity /\ turbidity <= 8000
             THEN "optimal" ELSE "suboptimal",
             IF turbidity < 3000
             THEN "Water is very clear, which may indicate low productivity"
             ELSE IF turbidity > 8000
             THEN "Water is too cloudy, consider filtration or water exchange"
             ELSE None)

\* an entry is made for each of the three keys whose value is truthy
analyze_parameters_basic(data) ==
    [k \in {key \in {"ph", "temperature", "turbidity"} : Truthy(data, key)} |->
        CASE k = "ph" -> AnalyzePh(data[k])
          [] k = "temperature" -> AnalyzeTemperature(data[k])
          [] k = "turbidity" -> AnalyzeTurbidity(data[k])]

\* the range test of _get_suitable_species_basic for one catalog entry
InIdealRanges(info, ph, temperature, turbidity) ==
    LET ph_range == RangeOr(info.ideal_ph_range, <<600, 850>>)
        temp_range == RangeOr(info.ideal_temperature_range, <<1800, 3200>>)
        turbidity_range == RangeOr(info.ideal_turbidity_range, <<2000, 8000>>)
    IN /\ ph_range[1] <= ph /\ ph <= ph_range[2]
       /\ temp_range[1] <= temperature /\ temperature <= temp_range[2]
       /\ turbidity_range[1] <= turbidity /\ turbidity <= turbidity_range[2]

\* the names of the catalog, in its order, whose ideal ranges hold the values
get_suitable_species_basic(data) ==
    LET ph == GetOr(data, "ph", 700)
        temperature == GetOr(data, "temperature", 2500)
        turbidity == GetOr(data, "turbidity", 5000)
        Test(species_name) ==
            InIdealRanges(fish_species_info[species_name],
                          ph, temperature, turbidity)
    IN SelectSeq(SpeciesOrder, Test)

\* the result dict of a prediction; kind "error" stands for a raised exception
Result(species, confidence, score, analysis, suitable) ==
    [kind |-> "ok",
     predicted_species |-> species,
     confidence |-> confidence,
     water_quality_score |-> score,
     parameter_analysis |-> analysis,
     suitable_species |-> ResolveSpecies(suitable)]

Error ==
    [kind |-> "error",
     predicted_species |-> None,
     confidence |-> 0,
     water_quality_score |-> NoScore,
     parameter_analysis |-> <<>>,
     suitable_species |-> <<>>]

\* input_data of predict_basic
BasicInput(data) ==
    [ph |-> data.ph, temperature |-> data.temperature,
     turbidity |-> data.turbidity]

\* predict_basic with the model called outside any try: its failure escapes
predict_basic_no_fallback(data, basic_outcome) ==
    IF basic_outcome.raises
    THEN Error
    ELSE Result(basic_outcome.predicted_species,
                basic_outcome.confidence,
                Score(BasicWaterQualityScore(data)),
                analyze_parameters_basic(BasicInput(data)),
                get_suitable_species_basic(BasicInput(data)))

\* predict_basic(data), basic_outcome being what self.basic_model.predict does
predict_basic(data, basic_outcome) ==
    LET input_data == BasicInput(data)
        prediction ==
            IF basic_outcome.raises
            THEN RuleFallback(data.ph, data.temperature, data.turbidity)
            ELSE [predicted_species |-> basic_outcome.predicted_species,
                  confidence |-> basic_outcome.confidence]
    IN Result(prediction.predicted_species,
              prediction.confidence,
              Score(BasicWaterQualityScore(data)),
              analyze_parameters_basic(input_data),
              get_suitable_species_basic(input_data))

----------------------------------------------------------------------------
(* predict_advanced *)

\* one weighted term of _calculate_water_quality_score: weight * fraction
PhTerm(ph) ==
    IF 650 <= ph /\ ph <= 850 THEN 150 * 100
    ELSE IF 600 <= ph /\ ph <= 900 THEN 150 * 70
    ELSE 150 * 30

TemperatureTerm(temp) ==
    IF 2000 <= temp /\ temp <= 3000 THEN 100 * 100
    ELSE IF 1500 <= temp /\ temp <= 3500 THEN 100 * 70
    ELSE 100 * 30

DissolvedOxygenTerm(do) ==
    IF do >= 600 THEN 200 * 100
    ELSE IF do >= 400 THEN 200 * 70
    ELSE 200 * 30

\* (score / total_weight) * 10 if total_weight > 0 else 5.0, in hundredths
calculate_water_quality_score(data) ==
    LET score ==
            (IF "ph" \in DOMAIN data THEN PhTerm(data["ph"]) ELSE 0)
          + (IF "temperature" \in DOMAIN data
             THEN TemperatureTerm(data["temperature"]) ELSE 0)
          + (IF "dissolved_oxygen" \in DOMAIN data
             THEN DissolvedOxygenTerm(data["dissolved_oxygen"]) ELSE 0)
        total_weight ==
            (IF "ph" \in DOMAIN data THEN 150 ELSE 0)
          + (IF "temperature" \in DOMAIN data THEN 100 ELSE 0)
          + (IF "dissolved_oxygen" \in DOMAIN data THEN 200 ELSE 0)
    IN IF total_weight > 0 THEN (score * 10) \div total_weight ELSE 500

\* the dissolved_oxygen entry of _analyze_parameters_advanced
AnalyzeDissolvedOxygen(do) ==
    Analysis(do,
             IF 500 <= do /\ do <= 900 THEN "optimal" ELSE "suboptimal",
             IF do < 500
             THEN "Low oxygen levels. Consider aeration or reducing fish density"
             ELSE IF do > 900
             THEN "High oxygen levels, possibly due to excessive algae growth"
             ELSE None)

\* the ammonia entry of _analyze_parameters_advanced
AnalyzeAmmonia(ammonia) ==
    Analysis(ammonia,
             IF ammonia < 10 THEN "optimal" ELSE "suboptimal",
             IF ammonia >= 10
             THEN "High ammonia levels. Reduce feeding and increase water exchange"
             ELSE None)

\* the nitrite entry of _analyze_parameters_advanced
AnalyzeNitrite(nitrite) ==
    Analysis(nitrite,
             IF nitrite < 5 THEN "optimal" ELSE "suboptimal",
             IF nitrite >= 5
             THEN "High nitrite levels. Check biofilter and reduce feeding"
             ELSE None)

\* the basic analysis, plus an entry for each truthy advanced value
analyze_parameters_advanced(data) ==
    LET analysis == analyze_parameters_basic(data)
        added == {key \in {"dissolved_oxygen", "ammonia", "nitrite"} :
                     Truthy(data, key)}
    IN [k \in DOMAIN analysis \cup added |->
           CASE k = "dissolved_oxygen" -> AnalyzeDissolvedOxygen(data[k])
             [] k = "ammonia" -> AnalyzeAmmonia(data[k])
             [] k = "nitrite" -> AnalyzeNitrite(data[k])
             [] OTHER -> analysis[k]]

\* the secondary filter with the cold-water oxygen threshold of the default case
PassesAdvancedCriteriaLowOxygen(species, do, ammonia, nitrite) ==
    IF species = "Salmon" \/ species = "Trout"
    THEN do >= 500 /\ ammonia < 5 /\ nitrite < 1
    ELSE IF species = "Tilapia" \/ species = "Catfish" \/ species = "Carp"
    THEN do >= 400
    ELSE do >= 500 /\ ammonia < 10 /\ nitrite < 5

\* the body of the loop of _get_suitable_species_advanced: whether it appends
PassesAdvancedCriteria(species, do, ammonia, nitrite) ==
    IF species = "Salmon" \/ species = "Trout"
    THEN do >= 700 /\ ammonia < 5 /\ nitrite < 1
    ELSE IF species = "Tilapia" \/ species = "Catfish" \/ species = "Carp"
    THEN do >= 400
    ELSE do >= 500 /\ ammonia < 10 /\ nitrite < 5

get_suitable_species_advanced(data) ==
    LET suitable_from_basic == get_suitable_species_basic(data)
        do == GetOr(data, "dissolved_oxygen", 600)
        ammonia == GetOr(data, "ammonia", 5)
        nitrite == GetOr(data, "nitrite", 1)
        Test(species) == PassesAdvancedCriteria(species, do, ammonia, nitrite)
    IN SelectSeq(suitable_from_basic, Test)

\* the outcome of self.water_quality_model.predict(input_data)
WqRaises == [called |-> TRUE, raises |-> TRUE, value |-> 0]
WqReturns(v) == [called |-> TRUE, raises |-> FALSE, value |-> v]

\* the inner try of predict_advanced
AdvancedWaterQualityScore(input_data, model_loaded, wq_outcome) ==
    IF model_loaded
    THEN IF wq_outcome.raises
         THEN Score(calculate_water_quality_score(input_data))
         ELSE Score(wq_outcome.value)
    ELSE NoScore

\* BasicFishPredictionRequest(ph=..., temperature=..., turbidity=...)
BasicFishPredictionRequest(data) ==
    [ph |-> data.ph, temperature |-> data.temperature,
     turbidity |-> data.turbidity]

\* the except-branch with the species list still taken from the advanced
\* filter, so that dissolved_oxygen, ammonia and nitrite reach the result
predict_advanced_keeps_filter(data, advanced_outcome, model_loaded, wq_outcome, basic_outcome) ==
    IF ~advanced_outcome.raises
    THEN Result(advanced_outcome.predicted_species,
                advanced_outcome.confidence,
                AdvancedWaterQualityScore(data, model_loaded, wq_outcome),
                analyze_parameters_advanced(data),
                get_suitable_species_advanced(data))
    ELSE [predict_basic(BasicFishPredictionRequest(data), basic_outcome)
            EXCEPT !.suitable_species =
                     ResolveSpecies(get_suitable_species_advanced(data))]

\* predict_advanced(data): advanced_outcome is what self.advanced_model.predict
\* does, model_loaded is self.water_quality_model.model, wq_outcome is what
\* self.water_quality_model.predict does, basic_outcome is what
\* self.basic_model.predict does in the delegated call
predict_advanced(data, advanced_outcome, model_loaded, wq_outcome, basic_outcome) ==
    IF ~advanced_outcome.raises
    THEN Result(advanced_outcome.predicted_species,
                advanced_outcome.confidence,
                AdvancedWaterQualityScore(data, model_loaded, wq_outcome),
                analyze_parameters_advanced(data),
                get_suitable_species_advanced(data))
    ELSE LET fallback ==
                 predict_basic(BasicFishPredictionRequest(data), basic_outcome)
         IN IF fallback.kind = "error" THEN Error ELSE fallback

----------------------------------------------------------------------------
(* The requests and the model outcomes that are explored *)

\* values on, inside and outside every band edge of the basic tier
BasicPhValues == {590, 600, 650, 700, 750, 800, 850, 900, 910}
BasicTemperatureValues ==
    {900, 1000, 1200, 1500, 1600, 1800, 2000, 2200, 2400, 2500, 2600, 2800,
     3000, 3200, 3300, 3500, 3600}
BasicTurbidityValues ==
    {0, 400, 500, 2000, 2500, 3000, 5000, 6000, 7000, 8000, 10000, 10100}

BasicRequests ==
    [ph : BasicPhValues, temperature : BasicTemperatureValues,
     turbidity : BasicTurbidityValues]

AdvancedPhValues == {550, 620, 700, 900}
AdvancedTemperatureValues == {1400, 2200, 2700, 3300}
AdvancedTurbidityValues == {0, 1000, 4000, 9000}
DissolvedOxygenValues == {0, 400, 500, 600, 700, 910}
AmmoniaValues == {0, 4, 5, 10}
NitriteValues == {0, 1, 5}

AdvancedRequests ==
    [temperature : AdvancedTemperatureValues,
     turbidity : AdvancedTurbidityValues,
     dissolved_oxygen : DissolvedOxygenValues,
     bod : {0, 300},
     co2 : {500},
     ph : AdvancedPhValues,
     alkalinity : {10000},
     hardness : {12000},
     calcium : {4000},
     ammonia : AmmoniaValues,
     nitrite : NitriteValues,
     phosphorus : {10},
     h2s : {0},
     plankton : {300000}]

\* what a species model's predict may do
SpeciesOutcomes ==
    {Raises, Returns("Salmon", 100), Returns("Shrimp", 62), Returns("Tilapia", 0)}

\* what the water-quality model's predict may do
WqOutcomes == {WqRaises, WqReturns(0), WqReturns(1000)}

\* a model that the request never reaches
NotCalled ==
    [called |-> FALSE, raises |-> FALSE, predicted_species |-> None,
     confidence |-> 0]
WqNotCalled == [called |-> FALSE, raises |-> FALSE, value |-> 0]

\* dicts for the species filter, each key there or not
Maybe(values) == {<<>>} \cup {<<v>> : v \in values}

MakeDict(opt) ==
    [k \in {key \in DOMAIN opt : opt[key] # <<>>} |-> opt[k][1]]

MatcherInputs ==
    { MakeDict(opt) :
        opt \in [ph : Maybe({700}),
                 temperature : Maybe({1400, 2700}),
                 turbidity : Maybe({1000, 4000}),
                 dissolved_oxygen : Maybe({400, 500, 700}),
                 ammonia : Maybe({4, 5}),
                 nitrite : Maybe({0, 1})] }

----------------------------------------------------------------------------
(* The service *)

Idle ==
    [op |-> "idle", data |-> <<>>, basic_outcome |-> NotCalled,
     advanced_outcome |-> NotCalled, wq_outcome |-> WqNotCalled]

NoResponse == [kind |-> "none"]

\* __init__: the three models are built; the water-quality model may or may
\* not have a model loaded
Init ==
    /\ water_quality_model \in [model : BOOLEAN]
    /\ request = Idle
    /\ response = NoResponse

\* a call of predict_basic
PredictBasic ==
    /\ request.op = "idle"
    /\ \E data \in BasicRequests, basic_outcome \in SpeciesOutcomes :
         /\ request' = [Idle EXCEPT !.op = "predict_basic", !.data = data,
                                    !.basic_outcome = basic_outcome]
         /\ response' = predict_basic(data, basic_outcome)
    /\ UNCHANGED water_quality_model

\* a call of predict_advanced
PredictAdvanced ==
    /\ request.op = "idle"
    /\ \E data \in AdvancedRequests, advanced_outcome \in SpeciesOutcomes :
         \E basic_outcome \in
                IF advanced_outcome.raises THEN SpeciesOutcomes ELSE {NotCalled},
            wq_outcome \in
                IF ~advanced_outcome.raises /\ water_quality_model.model
                THEN WqOutcomes ELSE {WqNotCalled} :
           /\ request' = [op |-> "predict_advanced", data |-> data,
                          basic_outcome |-> basic_outcome,
                          advanced_outcome |-> advanced_outcome,
                          wq_outcome |-> wq_outcome]
           /\ response' = predict_advanced(data, advanced_outcome,
                                           water_quality_model.model,
                                           wq_outcome, basic_outcome)
    /\ UNCHANGED water_quality_model

\* a call of _get_suitable_species_advanced on a dict that may lack keys
GetSuitableSpeciesAdvanced ==
    /\ request.op = "idle"
    /\ \E data \in MatcherInputs :
         /\ request' = [Idle EXCEPT !.op = "get_suitable_species_advanced",
                                    !.data = data]
         /\ response' = [kind |-> "species",
                         suitable_species |-> get_suitable_species_advanced(data)]
    /\ UNCHANGED water_quality_model

\* the result is handed to the caller; nothing of the request is kept
Return ==
    /\ request.op # "idle"
    /\ request' = Idle
    /\ response' = NoResponse
    /\ UNCHANGED water_quality_model

Next ==
    \/ PredictBasic
    \/ PredictAdvanced
    \/ GetSuitableSpeciesAdvanced
    \/ Return

Spec == Init /\ [][Next]_vars

----------------------------------------------------------------------------
(* Properties *)

\* the request went through predict_basic: called directly, or delegated to
\* by predict_advanced after its model raised
RanPredictBasic ==
    \/ request.op = "predict_basic"
    \/ request.op = "predict_advanced" /\ request.advanced_outcome.raises

\* predict_advanced ran its own success path
RanAdvancedPath ==
    request.op = "predict_advanced" /\ ~request.advanced_outcome.raises

Prediction(species, confidence) ==
    /\ response.predicted_species = species
    /\ response.confidence = confidence

\* the names of a list of species entries
RECURSIVE NamesOf(_)
NamesOf(infos) ==
    IF infos = <<>> THEN <<>>
    ELSE <<Head(infos).name>> \o NamesOf(Tail(infos))

Elements(seq) == {seq[i] : i \in 1..Len(seq)}

\* C1: when the basic model's predict raises, predict_basic returns the
\* species and confidence of the first rule that holds, in the order Tilapia
\* (0.85), Catfish (0.80), Carp (0.75), Trout (0.90), and ("Tilapia", 0.7)
\* when none holds; Salmon, Shrimp and Goldfish are never returned.
C1_FallbackFirstMatch ==
    (RanPredictBasic /\ request.basic_outcome.raises) =>
        LET ph == request.data.ph
            temperature == request.data.temperature
            turbidity == request.data.turbidity
            tilapia == TilapiaRule(ph, temperature, turbidity)
            catfish == CatfishRule(ph, temperature, turbidity)
            carp == CarpRule(ph, temperature, turbidity)
            trout == TroutRule(ph, temperature, turbidity)
        IN /\ response.kind = "ok"
           /\ tilapia => Prediction("Tilapia", 85)
           /\ (~tilapia /\ catfish) => Prediction("Catfish", 80)
           /\ (~tilapia /\ ~catfish /\ carp) => Prediction("Carp", 75)
           /\ (~tilapia /\ ~catfish /\ ~carp /\ trout) => Prediction("Trout", 90)
           /\ (~tilapia /\ ~catfish /\ ~carp /\ ~trout) => Prediction("Tilapia", 70)
           /\ response.predicted_species \notin {"Salmon", "Shrimp", "Goldfish"}

\* C1 witness: the model raised on an input that satisfies both the Tilapia
\* and the Catfish rule, and Tilapia was returned
C1_Witness ==
    /\ request.op = "predict_basic"
    /\ request.basic_outcome.raises
    /\ TilapiaRule(request.data.ph, request.data.temperature,
                   request.data.turbidity)
    /\ CatfishRule(request.data.ph, request.data.temperature,
                   request.data.turbidity)
    /\ Prediction("Tilapia", 85)

\* C2: when the advanced model succeeds and the water-quality model is not
\* loaded, or is loaded and its predict raises, water_quality_score is the weighted fallback score of
\* the input (never None).
C2_FallbackScoreWhenUnavailableOrFailing ==
    (RanAdvancedPath /\ (~water_quality_model.model \/ request.wq_outcome.raises))
        => response.water_quality_score =
               Score(calculate_water_quality_score(request.data))

\* C3: when the advanced model's predict raises, predict_advanced returns
\* what predict_basic returns on (ph, temperature, turbidity) of the request
\* for the same outcome of the basic model.
C3_AdvancedFailureEqualsBasic ==
    (request.op = "predict_advanced" /\ request.advanced_outcome.raises) =>
        response = predict_basic([ph |-> request.data.ph,
                                  temperature |-> request.data.temperature,
                                  turbidity |-> request.data.turbidity],
                                 request.basic_outcome)

\* C3 witness: the advanced model raised on a request whose advanced values
\* would have filtered Salmon out, and the basic result still lists it
C3_Witness ==
    /\ request.op = "predict_advanced"
    /\ request.advanced_outcome.raises
    /\ request.data.bod = 300
    /\ request.data.dissolved_oxygen = 500
    /\ response.kind = "ok"
    /\ "Salmon" \in Elements(NamesOf(response.suitable_species))

\* C4: predict_basic returns a result whether its model succeeds or raises;
\* predict_advanced returns a result when its model succeeds whatever the
\* water-quality model does, and raises only when its model raised and the
\* delegated predict_basic raised too.
C4_ModelFailureNotSurfaced ==
    /\ request.op = "predict_basic" => response.kind = "ok"
    /\ RanAdvancedPath => response.kind = "ok"
    /\ (request.op = "predict_advanced" /\ response.kind = "error") =>
           /\ request.advanced_outcome.raises
           /\ predict_basic(BasicFishPredictionRequest(request.data),
                            request.basic_outcome).kind = "error"

\* C4 witness: both the advanced and the basic model raised and a result
\* was returned
C4_Witness ==
    /\ request.op = "predict_advanced"
    /\ request.advanced_outcome.raises
    /\ request.basic_outcome.raises
    /\ response.kind = "ok"

RulesSatisfied(ph, temperature, turbidity) ==
    Cardinality({r \in {"Tilapia", "Catfish", "Carp", "Trout"} :
        CASE r = "Tilapia" -> TilapiaRule(ph, temperature, turbidity)
          [] r = "Catfish" -> CatfishRule(ph, temperature, turbidity)
          [] r = "Carp" -> CarpRule(ph, temperature, turbidity)
          [] r = "Trout" -> TroutRule(ph, temperature, turbidity)})

\* C6 as stated: no input satisfies more than one of the four fallback rules.
C6_RulesMutuallyExclusive ==
    (RanPredictBasic /\ request.basic_outcome.raises) =>
        RulesSatisfied(request.data.ph, request.data.temperature,
                       request.data.turbidity) <= 1

\* C6 as amended: an input that satisfies the Trout rule satisfies no other
\* rule (the Tilapia, Catfish and Carp rules overlap one another).
C6_TroutRuleExclusive ==
    (RanPredictBasic /\ request.basic_outcome.raises
       /\ TroutRule(request.data.ph, request.data.temperature,
                    request.data.turbidity))
    => RulesSatisfied(request.data.ph, request.data.temperature,
                      request.data.turbidity) = 1

\* C6 witness: the model raised on an input of the Trout rule
C6_Witness ==
    /\ request.op = "predict_basic"
    /\ request.basic_outcome.raises
    /\ TroutRule(request.data.ph, request.data.temperature,
                 request.data.turbidity)
    /\ Prediction("Trout", 90)

\* the secondary filter of a species group
GroupFilter(species, do, ammonia, nitrite) ==
    CASE species \in {"Salmon", "Trout"} ->
             do >= 700 /\ ammonia < 5 /\ nitrite < 1
      [] species \in {"Tilapia", "Catfish", "Carp"} -> do >= 400
      [] OTHER -> do >= 500 /\ ammonia < 10 /\ nitrite < 5

\* the species list of a response, as names
SuitableNames ==
    IF request.op = "get_suitable_species_advanced"
    THEN response.suitable_species
    ELSE NamesOf(response.suitable_species)

\* the request gives dissolved_oxygen, ammonia and nitrite to the filter
HasAdvancedValues ==
    {"dissolved_oxygen", "ammonia", "nitrite"} \subseteq DOMAIN request.data

\* C7: _get_suitable_species_advanced returns exactly the species of the
\* basic-qualified set that pass their group's secondary filter, in the
\* order of that set; Salmon is excluded when dissolved_oxygen = 5.0.
C7_AdvancedFilterExact ==
    ((RanAdvancedPath \/ request.op = "get_suitable_species_advanced")
       /\ HasAdvancedValues) =>
        LET qualified == get_suitable_species_basic(request.data)
            Keep(species) ==
                GroupFilter(species, request.data["dissolved_oxygen"],
                            request.data["ammonia"], request.data["nitrite"])
        IN /\ SuitableNames = SelectSeq(qualified, Keep)
           /\ Elements(SuitableNames) \subseteq Elements(qualified)
           /\ request.data["dissolved_oxygen"] = 500 =>
                  "Salmon" \notin Elements(SuitableNames)

\* C7 witness: Salmon is basic-qualified, dissolved_oxygen is 5.0 and the
\* advanced result leaves it out
C7_Witness ==
    /\ RanAdvancedPath
    /\ "Salmon" \in Elements(get_suitable_species_basic(request.data))
    /\ request.data.dissolved_oxygen = 500
    /\ "Salmon" \notin Elements(SuitableNames)

\* C8: when dissolved_oxygen, ammonia and nitrite are all absent, every
\* species of the basic-qualified set is kept by the advanced filter.
C8_AbsenceNeverRejects ==
    (request.op = "get_suitable_species_advanced"
       /\ DOMAIN request.data \cap {"dissolved_oxygen", "ammonia", "nitrite"} = {})
    => SuitableNames = get_suitable_species_basic(request.data)

\* the 3/2/1 award of a value from two nested inclusive bands
Award(v, tight, loose) ==
    IF tight[1] <= v /\ v <= tight[2] THEN 3
    ELSE IF loose[1] <= v /\ v <= loose[2] THEN 2
    ELSE 1

\* C9: predict_basic's water_quality_score is (a_ph + a_temp + a_turb)/9*10
\* with the awards from pH [6.5,8.5]/[6.0,9.0], temperature [22,30]/[18,32]
\* and turbidity [30,80]/[20,100], whichever path gave the species.
C9_BasicScoreIsVariantA ==
    RanPredictBasic =>
        response.water_quality_score =
            Score(( ( Award(request.data.ph, <<650, 850>>, <<600, 900>>)
                    + Award(request.data.temperature, <<2200, 3000>>, <<1800, 3200>>)
                    + Award(request.data.turbidity, <<3000, 8000>>, <<2000, 10000>>) )
                    * 1000 ) \div 9)

\* C9 witness: the rule path on an input with one award of each kind
C9_Witness ==
    /\ request.op = "predict_basic"
    /\ request.basic_outcome.raises
    /\ request.data = [ph |-> 700, temperature |-> 3200, turbidity |-> 10100]
    /\ response.water_quality_score = Score(666)

BelowBandAdvice ==
    {"Consider adding limestone or calcium carbonate to increase pH",
     "Consider using heaters to increase water temperature",
     "Water is very clear, which may indicate low productivity",
     "Low oxygen levels. Consider aeration or reducing fish density"}

AboveBandAdvice ==
    {"Consider adding natural acids like peat or driftwood to decrease pH",
     "Consider cooling methods like shade or water exchange",
     "Water is too cloudy, consider filtration or water exchange",
     "High oxygen levels, possibly due to excessive algae growth"}

\* the optimal band of the parameters that have a lower and an upper edge
OptimalBand ==
    [ph |-> <<650, 850>>, temperature |-> <<2000, 3000>>,
     turbidity |-> <<3000, 8000>>, dissolved_oxygen |-> <<500, 900>>]

\* C10: in every analysis record a recommendation is given only when the
\* status is suboptimal; a value below its band gets a below-band
\* recommendation and a value above it a different, above-band one; ph above
\* 8.5 is suboptimal with the decrease-pH recommendation.
C10_RecommendationOnlyWhenSuboptimal ==
    ((RanPredictBasic \/ RanAdvancedPath) /\ response.kind = "ok") =>
        /\ BelowBandAdvice \cap AboveBandAdvice = {}
        /\ \A k \in DOMAIN response.parameter_analysis :
             LET a == response.parameter_analysis[k]
             IN /\ a.status \in {"optimal", "suboptimal"}
                /\ a.status = "optimal" => a.recommendation = None
                /\ a.recommendation # None => a.status = "suboptimal"
                /\ k \in DOMAIN OptimalBand =>
                     /\ a.value < OptimalBand[k][1] =>
                            a.recommendation \in BelowBandAdvice
                     /\ a.value > OptimalBand[k][2] =>
                            a.recommendation \in AboveBandAdvice
                /\ (k = "ph" /\ a.value > 850) =>
                     /\ a.status = "suboptimal"
                     /\ a.recommendation =
                          "Consider adding natural acids like peat or driftwood to decrease pH"

\* C10 witness: the advanced analyzer on ph 9.0 with oxygen below its band
C10_Witness ==
    /\ RanAdvancedPath
    /\ request.data.ph = 900
    /\ request.data.dissolved_oxygen = 400
    /\ DOMAIN response.parameter_analysis =
           {"ph", "temperature", "turbidity", "dissolved_oxygen", "ammonia", "nitrite"}
    /\ response.parameter_analysis["ph"].status = "suboptimal"
    /\ response.parameter_analysis["dissolved_oxygen"].recommendation
           \in BelowBandAdvice

\* C11: when the rule fallback picks a species through one of its four rules
\* (not the no-match default), that species is in the suitable_species of
\* the same result.
C11_RuleSpeciesIsSuitable ==
    (RanPredictBasic /\ request.basic_outcome.raises
       /\ RulesSatisfied(request.data.ph, request.data.temperature,
                         request.data.turbidity) >= 1)
    => response.predicted_species
           \in Elements(NamesOf(response.suitable_species))

====
